---- MODULE Spec2Model ----
(***************************************************************************)
(* A model of src/ir.h: the packed node records (Constant, Add) and the    *)
(* NodeList arena: bump allocation over a growth chain (prepareInsert /    *)
(* prepareInsertSlow), gap sub-arenas (insertBefore) with the bounded gap  *)
(* cache, the multi-level iterator, totalSize, the destructor and flatten. *)
(*                                                                         *)
(* Memory is modelled at the granularity of the fields the code reads and  *)
(* writes, at integer addresses: nodes[a] is the record whose first byte   *)
(* is at address a (its vptr, its type tag, its payload), slots[a] is the  *)
(* gap pointer stored at address a.  An address that is not in the domain  *)
(* of these maps has never been written (it is uninitialized).             *)
(***************************************************************************)
EXTENDS Integers, Sequences, FiniteSets, TLC

VARIABLES
  blocks,   \* the NodeList objects ever created, by id (index)
  nodes,    \* heap: record address -> the record stored there
  slots,    \* heap: gap slot address -> the NodeList* stored there
  root,     \* the arena the client owns (NULL once destroyed)
  app,      \* history: arena handle -> addresses returned by its insert calls
  gapOf,    \* history: record address -> arena insertBefore returned for it
  ngaps,    \* history: gap arenas created so far
  nflat,    \* history: flatten calls so far
  last,     \* the last operation and what it returned
  cursor    \* a live iterator of the client, and what it has yielded

vars == <<blocks, nodes, slots, root, app, gapOf, ngaps, nflat, last, cursor>>

(***************************************************************************)
(* Sizes.  The records are packed (#pragma pack(1)): a Node is its vptr    *)
(* and a one-byte tag, a Constant adds an int, an Add two intptr_t.        *)
(***************************************************************************)
NULL == 0

gapSize == 8

sizeofConstant == 13

sizeofAdd == 25

\* The vptr values of the two classes: addresses outside the heap.
vtConstant == -1

vtAdd == -2

\* NodeList::defaultSize is 128*1024; the model scales it down so that a
\* block holds two Constants or one Add, and a chain grows after few inserts.
defaultSize == 56

\* GapsCache::gapsCacheSize is 8; the model scales it down so that the
\* cache overflows with the second gap registered in a block.
gapsCacheSize == 1

\* A capacity a client may pass to NodeList(initSize) that holds no record.
SmallRoot == 16

\* Bounds of the exploration.
MaxRecords == 4

MaxGaps == 2

MaxAdds == 1

MaxFlatten == 2

\* Fuel of the recursive definitions (delegation steps, iterator steps).
MaxDelegations == 8

MaxSteps == 12

\* The blocks a chain may hold before a further allocation is explored.
MaxChain == 4

\* The records of an arena built of Constants with gaps at its first record.
MaxNest == 6

\* Where the heap starts, and the distance malloc leaves between buffers.
HeapBase == 1000

HeapPad == 16

(***************************************************************************)
(* Helpers on functions and sequences.                                     *)
(***************************************************************************)
Store(f, k, v) == [x \in (DOMAIN f) \cup {k} |-> IF x = k THEN v ELSE f[x]]

RECURSIVE SumSeq(_)
SumSeq(s) == IF s = <<>> THEN 0 ELSE Head(s) + SumSeq(Tail(s))

RECURSIVE Concat(_)
Concat(ss) == IF ss = <<>> THEN <<>> ELSE Head(ss) \o Concat(Tail(ss))

Count(s, x) == Cardinality({i \in DOMAIN s : s[i] = x})

(***************************************************************************)
(* Node encoding.                                                          *)
(***************************************************************************)
\* Constant::Constant(int value)
Constant(value) ==
  [vptr |-> vtConstant, type |-> "Constant", value |-> value,
   offset_l |-> 0, offset_r |-> 0]

\* Add::Add(Node* l, Node* r), constructed at address this
Add(this, l, r) ==
  [vptr |-> vtAdd, type |-> "Add", value |-> 0,
   offset_l |-> l - this, offset_r |-> r - this]

\* sizeof(Node) as insert<Node> passes it to prepareInsert
SizeofType(type) == IF type = "Constant" THEN sizeofConstant ELSE sizeofAdd

\* Node::realSize: the size from the tag alone
realSize(n) == SizeofType(n.type)

\* Add::l / Add::r
AddL(this, n) == this + n.offset_l

AddR(this, n) == this + n.offset_r

(***************************************************************************)
(* NodeList construction and bump allocation.                              *)
(***************************************************************************)
\* the address operator new returns for the next buffer
NewBuf(bl) ==
  IF bl = <<>> THEN HeapBase
  ELSE bl[Len(bl)].buf + bl[Len(bl)].size + HeapPad

\* NodeList::NodeList(initSize): the object; the constructor also nulls the
\* first gap slot (see NewSlots)
NewNodeList(bl, initSize) ==
  [buf |-> NewBuf(bl), pos |-> NewBuf(bl) + gapSize, size |-> initSize,
   full |-> FALSE, nextFree |-> NULL, next |-> NULL,
   numGaps |-> 0, gapsCache |-> <<>>, freed |-> 0]

NewSlots_unwritten(bl, sl) == sl

NewSlots(bl, sl) == Store(sl, NewBuf(bl), NULL)

\* the capacity test of prepareInsert
Fits_noslot(b, s) == b.pos + s < b.buf + b.size

Fits(b, s) == b.pos + s + gapSize < b.buf + b.size

\* the address prepareInsert returns: res = (void*)pos
Result(b) == b.pos

\* the gap slot prepareInsert nulls: the one before the new bump cursor
EndSlot_first(b, s) == b.buf

EndSlot(b, s) == b.pos + s

\* the walk of prepareInsertSlow: while (cur->full && cur->next) cur = cur->next
RECURSIVE WalkFull(_, _)
WalkFull(bl, cur) ==
  IF bl[cur].full /\ bl[cur].next # NULL THEN WalkFull(bl, bl[cur].next) ELSE cur

\* the capacity of the block prepareInsertSlow appends: new NodeList()
GrowSize == defaultSize

NoStorage(bl, sl) ==
  [bl |-> bl, sl |-> sl, res |-> NULL, blk |-> NULL, steps |-> 0,
   returned |-> FALSE]

Delegated(r) == [r EXCEPT !.steps = @ + 1]

RECURSIVE prepareInsert(_, _, _, _, _)
RECURSIVE prepareInsertSlow(_, _, _, _, _)
\* NodeList::prepareInsert(s) on block b; fuel bounds the delegation steps
prepareInsert(bl, sl, b, s, fuel) ==
  IF fuel = 0 THEN NoStorage(bl, sl)
  ELSE IF bl[b].nextFree # NULL /\ ~bl[bl[b].nextFree].full
    THEN Delegated(prepareInsert(bl, sl, bl[b].nextFree, s, fuel - 1))
  ELSE IF Fits(bl[b], s)
    THEN [bl |-> [bl EXCEPT ![b].pos = @ + s + gapSize],
          sl |-> Store(sl, EndSlot(bl[b], s), NULL),
          res |-> Result(bl[b]), blk |-> b, steps |-> 0, returned |-> TRUE]
  ELSE prepareInsertSlow(bl, sl, b, s, fuel)

\* NodeList::prepareInsertSlow(s) on block b
prepareInsertSlow(bl, sl, b, s, fuel) ==
  LET bl1 == [bl EXCEPT ![b].full = TRUE]
      cur == WalkFull(bl1, b)
      n   == Len(bl1) + 1
  IN IF cur = b
     THEN Delegated(prepareInsert(
            Append([bl1 EXCEPT ![b].next = n, ![b].nextFree = n],
                   NewNodeList(bl1, GrowSize)),
            NewSlots(bl1, sl), n, s, fuel - 1))
     ELSE Delegated(prepareInsert(
            [bl1 EXCEPT ![b].nextFree = cur], sl, cur, s, fuel - 1))

(***************************************************************************)
(* Iterators.                                                              *)
(***************************************************************************)
\* flatIterator::hasGap / gap: the pointer in the slot before the finger
Gap(sl, finger) ==
  IF (finger - gapSize) \in DOMAIN sl THEN sl[finger - gapSize] ELSE NULL

\* nextIterator::begin(list)
nextBegin(bl, b) ==
  [it |-> bl[b].buf + gapSize, end |-> bl[b].pos, cur |-> b]

\* nextIterator::operator++
nextAdvance(bl, nd, n) ==
  LET f == n.it + gapSize + realSize(nd[n.it])
  IN IF f # n.end THEN [n EXCEPT !.it = f]
     ELSE IF bl[n.cur].next # NULL THEN nextBegin(bl, bl[n.cur].next)
     ELSE [it |-> f, end |-> n.end, cur |-> NULL]

\* nextIterator::operator!= against the end marker
nextNotEnd(n) == n.it # n.end

\* iterator::findStart
findStart_nodescent(bl, sl, n, wl) == [it |-> n, wl |-> wl]

RECURSIVE findStart(_, _, _, _)
findStart(bl, sl, n, wl) ==
  IF Gap(sl, n.it) # NULL /\ nextNotEnd(nextBegin(bl, Gap(sl, n.it)))
  THEN findStart(bl, sl, nextBegin(bl, Gap(sl, n.it)), <<n>> \o wl)
  ELSE [it |-> n, wl |-> wl]

\* iterator::begin(list), through iterator::iterator
iterBegin(bl, sl, b) ==
  IF nextNotEnd(nextBegin(bl, b)) THEN findStart(bl, sl, nextBegin(bl, b), <<>>)
  ELSE [it |-> nextBegin(bl, b), wl |-> <<>>]

\* iterator::operator++ (with popNext)
iterAdvance_redescend(bl, nd, sl, i) ==
  LET n == nextAdvance(bl, nd, i.it)
  IN IF findStart(bl, sl, i.it, i.wl).it # i.it
     THEN findStart(bl, sl, i.it, i.wl)
     ELSE IF ~nextNotEnd(n)
     THEN IF i.wl # <<>> THEN [it |-> Head(i.wl), wl |-> Tail(i.wl)]
          ELSE [it |-> n, wl |-> i.wl]
     ELSE findStart(bl, sl, n, i.wl)

iterAdvance(bl, nd, sl, i) ==
  LET n == nextAdvance(bl, nd, i.it)
  IN IF ~nextNotEnd(n)
     THEN IF i.wl # <<>> THEN [it |-> Head(i.wl), wl |-> Tail(i.wl)]
          ELSE [it |-> n, wl |-> i.wl]
     ELSE findStart(bl, sl, n, i.wl)

\* iterator::operator!= against end()
iterNotEnd(i) == nextNotEnd(i.it)

\* the positions for (i = begin(); i != end(); ++i) visits: cur() and curFinger()
RECURSIVE Visit(_, _, _, _, _)
Visit(bl, nd, sl, i, fuel) ==
  IF ~iterNotEnd(i) \/ fuel = 0 THEN <<>>
  ELSE <<[cur |-> i.it.cur, finger |-> i.it.it]>>
       \o Visit(bl, nd, sl, iterAdvance(bl, nd, sl, i), fuel - 1)

Traverse(bl, nd, sl, b) == Visit(bl, nd, sl, iterBegin(bl, sl, b), MaxSteps)

\* NodeList::at(pos)
RECURSIVE At(_, _, _, _, _)
At(bl, nd, sl, i, k) ==
  IF k = 0 THEN i ELSE At(bl, nd, sl, iterAdvance(bl, nd, sl, i), k - 1)

\* the addresses a traversal yields (operator*)
Fingers(v) == [k \in DOMAIN v |-> v[k].finger]

(***************************************************************************)
(* Gaps: the bounded cache and the scan of a block's cells.                *)
(***************************************************************************)
\* GapsCache::add
GapsAdd(b, g) ==
  [b EXCEPT !.gapsCache = IF b.numGaps < gapsCacheSize THEN Append(@, g) ELSE @,
            !.numGaps = @ + 1]

\* GapsCache::overflow
Overflow(b) == b.numGaps > gapsCacheSize

\* gapIterator over block b: the non-null gap slots of its cells, from
\* flatIterator::begin to flatIterator::end
RECURSIVE ScanFrom(_, _, _, _, _)
ScanFrom(nd, sl, finger, end, fuel) ==
  IF finger = end \/ fuel = 0 \/ finger \notin DOMAIN nd THEN <<>>
  ELSE (IF Gap(sl, finger) # NULL THEN <<Gap(sl, finger)>> ELSE <<>>)
       \o ScanFrom(nd, sl, finger + gapSize + realSize(nd[finger]), end, fuel - 1)

ScanGaps(bl, nd, sl, b) ==
  ScanFrom(nd, sl, bl[b].buf + gapSize, bl[b].pos, MaxSteps)

\* Gaps::foreach(parent, f): the gaps f is applied to, in order
Foreach(bl, nd, sl, b) ==
  IF Overflow(bl[b]) THEN ScanGaps(bl, nd, sl, b)
  ELSE SubSeq(bl[b].gapsCache, 1, bl[b].numGaps)

\* NodeList::totalSize
RECURSIVE totalSize(_, _, _, _, _)
totalSize(bl, nd, sl, b, fuel) ==
  IF fuel = 0 THEN 0
  ELSE bl[b].size
       + SumSeq([k \in DOMAIN Foreach(bl, nd, sl, b) |->
                   totalSize(bl, nd, sl, Foreach(bl, nd, sl, b)[k], fuel - 1)])
       + (IF bl[b].next # NULL
          THEN totalSize(bl, nd, sl, bl[b].next, fuel - 1) ELSE 0)

\* NodeList::~NodeList: the blocks delete is applied to, in order
RECURSIVE Deleted(_, _, _, _, _)
Deleted(bl, nd, sl, b, fuel) ==
  IF fuel = 0 THEN <<>>
  ELSE Concat([k \in DOMAIN Foreach(bl, nd, sl, b) |->
                 Deleted(bl, nd, sl, Foreach(bl, nd, sl, b)[k], fuel - 1)])
       \o (IF bl[b].next # NULL
           THEN Deleted(bl, nd, sl, bl[b].next, fuel - 1) ELSE <<>>)
       \o <<b>>

\* the heap after the deletes: each delete[] releases the block's buffer
InBuffer(bl, b, a) == bl[b].buf <= a /\ a < bl[b].buf + bl[b].size

Release(bl, f, d) ==
  [a \in {x \in DOMAIN f : \A k \in DOMAIN d : ~InBuffer(bl, d[k], x)} |-> f[a]]

MarkFreed(bl, d) == [b \in DOMAIN bl |-> [bl[b] EXCEPT !.freed = @ + Count(d, b)]]

(***************************************************************************)
(* What the structure really holds: the blocks reachable from a block      *)
(* through next pointers and the gap slots of its cells.                   *)
(***************************************************************************)
RECURSIVE Reach(_, _, _, _, _)
Reach(bl, nd, sl, b, fuel) ==
  IF fuel = 0 THEN <<>>
  ELSE <<b>>
       \o Concat([k \in DOMAIN ScanGaps(bl, nd, sl, b) |->
                    Reach(bl, nd, sl, ScanGaps(bl, nd, sl, b)[k], fuel - 1)])
       \o (IF bl[b].next # NULL
           THEN Reach(bl, nd, sl, bl[b].next, fuel - 1) ELSE <<>>)

(***************************************************************************)
(* The value of a record: its tag and payload, an Add's operands resolved. *)
(* An operand that resolves to an address holding no record has no value:  *)
(* it is reported as wild, with the address.                               *)
(***************************************************************************)
RECURSIVE NodeValue(_, _, _)
NodeValue(nd, a, fuel) ==
  IF a \notin DOMAIN nd \/ fuel = 0 THEN <<"wild", a>>
  ELSE IF nd[a].type = "Constant" THEN <<"Constant", nd[a].value>>
  ELSE IF nd[a].type = "Add"
    THEN <<"Add", NodeValue(nd, AddL(a, nd[a]), fuel - 1),
                  NodeValue(nd, AddR(a, nd[a]), fuel - 1)>>
  ELSE <<"wild", a>>

Values(bl, nd, sl, b) ==
  [k \in DOMAIN Traverse(bl, nd, sl, b) |->
     NodeValue(nd, Traverse(bl, nd, sl, b)[k].finger, MaxSteps)]

(***************************************************************************)
(* flatten.                                                                *)
(***************************************************************************)
\* What a read of memory that holds no record may find: as a record, a byte
\* that is no tag (realSize asserts) or the bytes of a record that lived there
\* before; as a pointer, some word that is no address of the heap.
Garbage ==
  { [vptr |-> p, type |-> t, value |-> 0, offset_l |-> 0, offset_r |-> 0]
      : p \in {-3, -4}, t \in {"Invalid", "Constant", "Add"} }

\* the record at address a, as the code reads it
Load(nd, a, g) ==
  IF a \in DOMAIN nd THEN nd[a]
  ELSE [g EXCEPT !.vptr = IF g.type = "Add" THEN vtAdd ELSE vtConstant]

\* *(Node**)a: the first word at address a read as a pointer
LoadPtr(nd, a, g) == IF a \in DOMAIN nd THEN nd[a].vptr ELSE g.vptr

\* Node::adjustOffset(old) on the copy at address this: the forwarding value
Forward(nd, this, old) ==
  Store(nd, old, [Load(nd, old, nd[this]) EXCEPT !.vptr = this])

\* Add::adjustOffset(old) on the copy at address this
AddAdjust(nd, this, old, g) ==
  LET o    == Load(nd, old, g)
      up_r == LoadPtr(nd, AddR(old, o), g)
      up_l == LoadPtr(nd, AddL(old, o), g)
  IN Forward([nd EXCEPT ![this].offset_l = up_l - this,
                        ![this].offset_r = up_r - this], this, old)

\* copy->adjustOffset(old): the virtual call, dispatched on the copy's vptr
adjustOffset(nd, this, old, g) ==
  IF nd[this].vptr = vtAdd THEN AddAdjust(nd, this, old, g)
  ELSE Forward(nd, this, old)

\* memcpy(new_start, old_start, old_end - old_start + last_size): the records
\* of the run and the gap slots between them
RECURSIVE Memcpy(_, _, _, _, _, _, _)
Memcpy(nd, sl, fo, fn, old_end, g, fuel) ==
  IF fo > old_end \/ fuel = 0 THEN [nd |-> nd, sl |-> sl]
  ELSE LET n == Load(nd, fo, g)
           s == realSize(n)
       IN Memcpy(Store(nd, fn, n),
                 IF fo + s + gapSize <= old_end
                 THEN Store(sl, fn + s, Gap(sl, fo + s + gapSize)) ELSE sl,
                 fo + s + gapSize, fn + s + gapSize, old_end, g, fuel - 1)

\* whether the first word at address a is a forwarding value: the address of
\* a copy, written by Node::adjustOffset
Forwarded(nd, a) == a \in DOMAIN nd /\ nd[a].vptr > NULL

\* the operands Add::adjustOffset(old) reads before they hold a forwarding
\* value
Unforwarded(nd, old, g) ==
  {a \in {AddR(old, Load(nd, old, g)), AddL(old, Load(nd, old, g))} :
     ~Forwarded(nd, a)}

\* the while loop of fixup and the slot nulled after it; early lists the
\* records whose adjustOffset read an operand that was not forwarded yet
RECURSIVE FixupLoop(_, _, _, _, _, _, _)
FixupLoop(nd, sl, fo, fn, old_end, g, fuel) ==
  IF fo > old_end \/ fuel = 0
  THEN [nd |-> nd, sl |-> Store(sl, fn - gapSize, NULL), pos |-> fn,
        early |-> <<>>]
  ELSE LET s == realSize(nd[fn])
           e == IF nd[fn].vptr = vtAdd /\ Unforwarded(nd, fo, g) # {}
                THEN <<fo>> ELSE <<>>
       IN [FixupLoop(adjustOffset(nd, fn, fo, g),
                     Store(sl, fn - gapSize, NULL),
                     fo + s + gapSize, fn + s + gapSize, old_end, g, fuel - 1)
             EXCEPT !.early = e \o @]

\* the lambda fixup(old_start, old_end, new_start) of flatten
fixup(nd, sl, old_start, old_end, new_start, g) ==
  LET m == Memcpy(nd, sl, old_start, new_start, old_end, g, MaxSteps)
  IN FixupLoop(m.nd, m.sl, old_start, new_start, old_end, g, MaxSteps)

\* the for loop of flatten over the positions v the iterator visits
RECURSIVE FlattenLoop(_, _, _, _, _, _, _, _, _)
FlattenLoop(nd, sl, pos, v, k, cur, start, end, g) ==
  IF k > Len(v) THEN fixup(nd, sl, start, end, pos, g)
  ELSE IF cur # v[k].cur
    THEN LET f == fixup(nd, sl, start, end, pos, g)
         IN [FlattenLoop(f.nd, f.sl, f.pos, v, k + 1, v[k].cur,
                         v[k].finger, v[k].finger, g)
               EXCEPT !.early = f.early \o @]
  ELSE FlattenLoop(nd, sl, pos, v, k + 1, cur, start, v[k].finger, g)

\* whether flatten reads a cell that holds no record (fixup's last->realSize()
\* when the iterator starts at end())
ReadsUninit(bl, nd, sl, b) == iterBegin(bl, sl, b).it.it \notin DOMAIN nd

\* NodeList::flatten on arena b, up to the delete: the new NodeList and the heap
flatten(bl, nd, sl, b, g) ==
  LET flat == NewNodeList(bl, totalSize(bl, nd, sl, b, MaxSteps))
      i    == iterBegin(bl, sl, b)
      f    == FlattenLoop(nd, NewSlots(bl, sl), flat.pos,
                          Traverse(bl, nd, sl, b), 1, i.it.cur, i.it.it,
                          i.it.it, g)
  IN [bl |-> Append(bl, [flat EXCEPT !.pos = f.pos]), nd |-> f.nd, sl |-> f.sl,
      early |-> f.early]

(***************************************************************************)
(* The logical sequence the operations imply (section 3 of the             *)
(* specification), from the history of the calls: the records appended to  *)
(* an arena in the order of the appends, each preceded by the logical      *)
(* sequence of the sub-arena insertBefore returned for it.                 *)
(***************************************************************************)
RECURSIVE Implied(_, _, _, _)
Implied(ap, go, h, fuel) ==
  IF fuel = 0 \/ h \notin DOMAIN ap THEN <<>>
  ELSE Concat([k \in DOMAIN ap[h] |->
         (IF ap[h][k] \in DOMAIN go THEN Implied(ap, go, go[ap[h][k]], fuel - 1)
          ELSE <<>>) \o <<ap[h][k]>>])

Handles == IF root = NULL THEN {} ELSE {root} \cup {gapOf[a] : a \in DOMAIN gapOf}

\* what an operation leaves in last
Op(op, arena, addr, size, steps) ==
  [op |-> op, arena |-> arena, addr |-> addr, size |-> size, steps |-> steps,
   before |-> <<>>, records |-> 0, capacity |-> 0, uninit |-> FALSE,
   early |-> <<>>]
\* (for a flatten: before, the values the source's traversal yielded;
\* records, the records the arena held when it was first flattened; capacity,
\* the capacity of the source's blocks; uninit, whether a cell holding no
\* record was read; early, the records relocated before an operand of
\* theirs was forwarded)

\* the client holds no iterator
NoCursor ==
  [mode |-> "none", i |-> [it |-> [it |-> NULL, end |-> NULL, cur |-> NULL],
                           wl |-> <<>>],
   gap |-> NULL, expect |-> <<>>, seen |-> <<>>, added |-> 0]
\* (mode: none, live, or what became of it; i: the iterator; gap: the arena
\* insertBefore returned for its position; expect: what the iterator had
\* still to yield when insertBefore was called; seen: what it has yielded
\* since; added: the records appended to gap since)

\* the capacities of the blocks an arena really holds
Capacity(bl, nd, sl, b) ==
  SumSeq([k \in DOMAIN Reach(bl, nd, sl, b, MaxSteps) |->
            bl[Reach(bl, nd, sl, b, MaxSteps)[k]].size])

(***************************************************************************)
(* Initial state: NodeList(initSize), of the default or of a small size.   *)
(***************************************************************************)
Init ==
  \E initSize \in {defaultSize, SmallRoot} :
    /\ blocks = <<NewNodeList(<<>>, initSize)>>
    /\ nodes = <<>>
    /\ slots = NewSlots(<<>>, <<>>)
    /\ root = 1
    /\ app = (1 :> <<>>)
    /\ gapOf = <<>>
    /\ ngaps = 0
    /\ nflat = 0
    /\ last = Op("none", NULL, NULL, 0, 0)
    /\ cursor = NoCursor

Running == root # NULL /\ last.op # "abort"

\* The exploration builds an arena, then flattens it (up to MaxFlatten times
\* in a row) or destroys it.
Building == Running /\ nflat = 0 /\ cursor.mode = "none"

\* insert<Constant>(value) / insert<Add>(l, r) on arena h: prepareInsert and
\* the placement new of the record at the address it returns
InsertRecord(h, type, value, l, r) ==
  \E p \in {prepareInsert(blocks, slots, h, SizeofType(type), MaxDelegations)} :
     /\ p.returned
     /\ blocks' = p.bl
     /\ slots' = p.sl
     /\ nodes' = Store(nodes, p.res,
                       IF type = "Constant" THEN Constant(value)
                       ELSE Add(p.res, l, r))
     /\ app' = [app EXCEPT ![h] = Append(@, p.res)]
     /\ last' = Op("insert", h, p.res, SizeofType(type), p.steps)
     /\ UNCHANGED <<root, gapOf, ngaps, nflat, cursor>>

InsertConstant ==
  /\ Building
  /\ Cardinality(DOMAIN nodes) < MaxRecords
  /\ \E h \in Handles :
       InsertRecord(h, "Constant", Cardinality(DOMAIN nodes) + 1, NULL, NULL)

InsertAdd ==
  /\ Building
  /\ Cardinality(DOMAIN nodes) < MaxRecords
  /\ Cardinality({a \in DOMAIN nodes : nodes[a].type = "Add"}) < MaxAdds
  /\ \E h \in Handles : \E l \in DOMAIN nodes : \E r \in DOMAIN nodes :
       InsertRecord(h, "Add", 0, l, r)

\* the block NodeList::insertBefore(i) registers a new gap in: this
GapOwner(h, cur) == h

\* h->insertBefore(h->at(k)): iterator::insertBefore(p) with p = h
InsertBefore ==
  /\ Building
  /\ \E h \in Handles :
       \E k \in 0 .. (Len(Traverse(blocks, nodes, slots, h)) - 1) :
         LET i == At(blocks, nodes, slots, iterBegin(blocks, slots, h), k)
             f == i.it.it
             g == Len(blocks) + 1
             p == GapOwner(h, i.it.cur)
         IN IF Gap(slots, f) = NULL
            THEN /\ ngaps < MaxGaps
                 /\ blocks' = Append([blocks EXCEPT ![p] = GapsAdd(@, g)],
                                     NewNodeList(blocks, defaultSize))
                 /\ slots' = Store(NewSlots(blocks, slots), f - gapSize, g)
                 /\ app' = Store(app, g, <<>>)
                 /\ gapOf' = Store(gapOf, f, g)
                 /\ ngaps' = ngaps + 1
                 /\ last' = Op("insertBefore", g, f, 0, 0)
                 /\ UNCHANGED <<nodes, root, nflat, cursor>>
            ELSE /\ last' = Op("insertBefore", Gap(slots, f), f, 0, 0)
                 /\ UNCHANGED <<blocks, nodes, slots, root, app, gapOf, ngaps,
                                nflat, cursor>>

\* delete on arena b: the blocks marked released and their buffers gone
Delete(bl, nd, sl, b, d) ==
  [bl |-> MarkFreed(bl, d), nd |-> Release(bl, nd, d), sl |-> Release(bl, sl, d)]

\* flatten with its delete this: the deletes are those of the tree as it is
\* when flatten is called (fixup writes no gap slot and no tag of the old tree)
FlattenAndDelete(bl, nd, sl, b, g) ==
  LET f == flatten(bl, nd, sl, b, g)
  IN Delete(f.bl, f.nd, f.sl, b, Deleted(bl, nd, sl, b, MaxSteps))
       @@ [early |-> f.early]

\* root = root->flatten()
Flatten ==
  /\ Running
  /\ nflat < MaxFlatten
  /\ \E g \in Garbage :
       IF ReadsUninit(blocks, nodes, slots, root) /\ g.type = "Invalid"
       THEN /\ last' = [Op("abort", root, NULL, 0, 0)
                          EXCEPT !.uninit = TRUE,
                                 !.records = Cardinality(DOMAIN nodes)]
            /\ UNCHANGED <<blocks, nodes, slots, root, app, gapOf, ngaps, nflat,
                           cursor>>
       ELSE \E f \in {FlattenAndDelete(blocks, nodes, slots, root, g)} :
            \E v \in {Fingers(Traverse(f.bl, f.nd, f.sl, Len(f.bl)))} :
               /\ blocks' = f.bl
               /\ nodes' = f.nd
               /\ slots' = f.sl
               /\ root' = Len(f.bl)
               /\ app' = (Len(f.bl) :> v)
               /\ gapOf' = <<>>
               /\ nflat' = nflat + 1
               /\ last' = [Op("flatten", Len(f.bl), NULL, f.bl[Len(f.bl)].size, 0)
                             EXCEPT !.before = Values(blocks, nodes, slots, root),
                                    !.records = IF nflat = 0
                                                THEN Cardinality(DOMAIN nodes)
                                                ELSE last.records,
                                    !.capacity = Capacity(blocks, nodes, slots, root),
                                    !.uninit = ReadsUninit(blocks, nodes, slots, root),
                                    !.early = f.early]
               /\ UNCHANGED <<ngaps, cursor>>

\* delete root
Destroy ==
  /\ Running
  /\ \E f \in {Delete(blocks, nodes, slots, root,
                      Deleted(blocks, nodes, slots, root, MaxSteps))} :
        /\ blocks' = f.bl
        /\ nodes' = f.nd
        /\ slots' = f.sl
        /\ root' = NULL
        /\ last' = Op("delete", root, NULL, 0, 0)
        /\ UNCHANGED <<app, gapOf, ngaps, nflat, cursor>>

Next == InsertConstant \/ InsertAdd \/ InsertBefore \/ Flatten \/ Destroy

Spec == Init /\ [][Next]_vars

(***************************************************************************)
(* The allocator alone: prepareInsert(s) on the root, for request sizes up *)
(* to what a fresh block of the default capacity can and cannot hold.      *)
(***************************************************************************)
\* the largest request a fresh block holds, and the smallest it does not:
\* a block of capacity c takes s iff gapSize + s + gapSize < c
RequestSizes ==
  {sizeofConstant, sizeofAdd,
   defaultSize - 2 * gapSize - 1, defaultSize - 2 * gapSize}

\* prepareInsert(s): the call returns storage, or delegates to fresh blocks
\* for as long as it is followed (MaxDelegations steps)
Allocate ==
  /\ root # NULL
  /\ last.op # "diverged"
  /\ Len(blocks) < MaxChain
  /\ \E s \in RequestSizes :
       \E p \in {prepareInsert(blocks, slots, root, s, MaxDelegations)} :
          /\ blocks' = p.bl
          /\ slots' = p.sl
          /\ last' = IF p.returned
                        THEN Op("allocate", root, p.res, s, p.steps)
                        ELSE Op("diverged", root, NULL, s, p.steps)
          /\ UNCHANGED <<nodes, root, app, gapOf, ngaps, nflat, cursor>>

NextAlloc == Allocate

SpecAlloc == Init /\ [][NextAlloc]_vars

(***************************************************************************)
(* A live iterator: the client builds an arena, takes i = begin(), steps   *)
(* it with ++i, calls insertBefore(i) at its position once and appends     *)
(* records to the arena insertBefore returned while it goes on stepping.   *)
(***************************************************************************)
\* i = root->begin()
CursorBegin ==
  /\ Building
  /\ cursor' = [NoCursor EXCEPT !.mode = "live",
                                !.i = iterBegin(blocks, slots, root)]
  /\ last' = Op("begin", root, iterBegin(blocks, slots, root).it.it, 0, 0)
  /\ UNCHANGED <<blocks, nodes, slots, root, app, gapOf, ngaps, nflat>>

\* ++i.  At a record: *i has been yielded and operator++ moves on.  At the
\* terminal state: flatIterator::operator++ calls realSize() on the cell at
\* the bump cursor, which holds no record; the tag found there decides
\* whether realSize asserts or the finger moves past the end.
CursorAdvance ==
  /\ Running
  /\ cursor.mode = "live"
  /\ IF iterNotEnd(cursor.i)
     THEN /\ cursor' = [cursor EXCEPT
                          !.i = iterAdvance(blocks, nodes, slots, cursor.i),
                          !.seen = Append(@, cursor.i.it.it)]
          /\ last' = Op("advance", root, cursor.i.it.it, 0, 0)
     ELSE \E g \in Garbage :
          /\ cursor' = [cursor EXCEPT
                          !.mode = IF g.type = "Invalid" THEN "asserted"
                                   ELSE "past",
                          !.i.it.it = IF g.type = "Invalid" THEN @
                                      ELSE @ + gapSize + realSize(g)]
          /\ last' = [Op("advanceAtEnd", root, cursor.i.it.it, 0, 0)
                        EXCEPT !.uninit = TRUE]
  /\ UNCHANGED <<blocks, nodes, slots, root, app, gapOf, ngaps, nflat>>

\* g = root->insertBefore(i) at the iterator's position
CursorInsertBefore ==
  /\ Running
  /\ cursor.mode = "live"
  /\ cursor.gap = NULL
  /\ iterNotEnd(cursor.i)
  /\ LET f == cursor.i.it.it
         g == Len(blocks) + 1
         p == GapOwner(root, cursor.i.it.cur)
         e == Fingers(Visit(blocks, nodes, slots, cursor.i, MaxSteps))
     IN IF Gap(slots, f) = NULL
        THEN /\ ngaps < MaxGaps
             /\ blocks' = Append([blocks EXCEPT ![p] = GapsAdd(@, g)],
                                 NewNodeList(blocks, defaultSize))
             /\ slots' = Store(NewSlots(blocks, slots), f - gapSize, g)
             /\ app' = Store(app, g, <<>>)
             /\ gapOf' = Store(gapOf, f, g)
             /\ ngaps' = ngaps + 1
             /\ cursor' = [cursor EXCEPT !.gap = g, !.expect = e,
                                         !.seen = <<>>]
             /\ last' = Op("insertBefore", g, f, 0, 0)
             /\ UNCHANGED <<nodes, root, nflat>>
        ELSE /\ cursor' = [cursor EXCEPT !.gap = Gap(slots, f), !.expect = e,
                                         !.seen = <<>>]
             /\ last' = Op("insertBefore", Gap(slots, f), f, 0, 0)
             /\ UNCHANGED <<blocks, nodes, slots, root, app, gapOf, ngaps,
                            nflat>>

\* g->insert<Constant>(value) on the arena insertBefore(i) returned
CursorAppend ==
  /\ Running
  /\ cursor.mode = "live"
  /\ cursor.gap # NULL
  /\ Cardinality(DOMAIN nodes) < MaxRecords
  /\ \E p \in {prepareInsert(blocks, slots, cursor.gap, sizeofConstant,
                              MaxDelegations)} :
       /\ p.returned
       /\ blocks' = p.bl
       /\ slots' = p.sl
       /\ nodes' = Store(nodes, p.res, Constant(Cardinality(DOMAIN nodes) + 1))
       /\ app' = [app EXCEPT ![cursor.gap] = Append(@, p.res)]
       /\ cursor' = [cursor EXCEPT !.added = @ + 1]
       /\ last' = Op("insert", cursor.gap, p.res, sizeofConstant, p.steps)
       /\ UNCHANGED <<root, gapOf, ngaps, nflat>>

NextIter ==
  \/ InsertConstant
  \/ InsertAdd
  \/ InsertBefore
  \/ CursorBegin
  \/ CursorAdvance
  \/ CursorInsertBefore
  \/ CursorAppend

SpecIter == Init /\ [][NextIter]_vars

(***************************************************************************)
(* Nested gaps: arenas of up to MaxNest Constants whose gaps are created   *)
(* by root->insertBefore(root->begin()), each at the first record of the   *)
(* logical sequence (inside the gap created before), then flattened.       *)
(***************************************************************************)
\* h->insert<Constant>(value) on any arena handed out
NestInsert ==
  /\ Building
  /\ Cardinality(DOMAIN nodes) < MaxNest
  /\ \E h \in Handles :
       InsertRecord(h, "Constant", Cardinality(DOMAIN nodes) + 1, NULL, NULL)

\* root->insertBefore(root->at(0))
NestInsertBefore ==
  /\ Building
  /\ ngaps < MaxGaps
  /\ iterNotEnd(iterBegin(blocks, slots, root))
  /\ LET f == iterBegin(blocks, slots, root).it.it
         g == Len(blocks) + 1
         p == GapOwner(root, iterBegin(blocks, slots, root).it.cur)
     IN /\ Gap(slots, f) = NULL
        /\ blocks' = Append([blocks EXCEPT ![p] = GapsAdd(@, g)],
                            NewNodeList(blocks, defaultSize))
        /\ slots' = Store(NewSlots(blocks, slots), f - gapSize, g)
        /\ app' = Store(app, g, <<>>)
        /\ gapOf' = Store(gapOf, f, g)
        /\ ngaps' = ngaps + 1
        /\ last' = Op("insertBefore", g, f, 0, 0)
        /\ UNCHANGED <<nodes, root, nflat, cursor>>

NextNest == NestInsert \/ NestInsertBefore \/ Flatten

SpecNest == Init /\ [][NextNest]_vars

(***************************************************************************)
(* Claims.                                                                 *)
(***************************************************************************)
Live == root # NULL /\ last.op # "abort"

TraversalNow == Fingers(Traverse(blocks, nodes, slots, root))

ValuesNow == Values(blocks, nodes, slots, root)

\* the encoded size of a record from its value
ValueSize(v) == IF v[1] = "Constant" THEN sizeofConstant ELSE sizeofAdd

\* the address of the k-th cell's record in a dense block that starts at buf
\* and holds records of the values vs
RECURSIVE DenseAddr(_, _, _)
DenseAddr(buf, vs, k) ==
  IF k = 1 THEN buf + gapSize
  ELSE DenseAddr(buf, vs, k - 1) + ValueSize(vs[k - 1]) + gapSize

Disjoint(a, n, b, m) == a + n <= b \/ b + m <= a

\* C1: order preservation.  In an arena built by insert and insertBefore from
\* NodeList() (default capacity), a traversal from begin() yields exactly the
\* addresses the inserts returned, in the order the operations imply: the
\* records appended to an arena in append order, each preceded by the
\* records of the sub-arena insertBefore returned for it.
C1_OrderPreserved ==
  (Live /\ nflat = 0 /\ blocks[1].size = defaultSize)
    => TraversalNow = Implied(app, gapOf, root, MaxSteps)

\* C2: flatten preserves the values.  After flatten of an arena built by
\* insert and insertBefore whose traversal yields at least one record,
\* traversing the result yields the same sequence of values (tags, Constant
\* values, resolved Add operands) as traversing the source did.
C2_FlattenPreservesValues ==
  (last.op = "flatten" /\ nflat = 1 /\ last.before # <<>>)
    => ValuesNow = last.before

\* C3: size accounting.  totalSize of the arena equals the sum of the
\* capacities of the blocks reachable from it through next pointers and gap
\* slots, each counted once, and the buffer flatten allocated has the
\* capacity of the tree it flattened.
C3_SizeAccounting ==
  /\ Live => totalSize(blocks, nodes, slots, root, MaxSteps)
               = Capacity(blocks, nodes, slots, root)
  /\ last.op = "flatten" => blocks[root].size = last.capacity

\* C4: insertion does not disturb what exists.  A step of insert or
\* insertBefore leaves every existing record at its address with its
\* content, leaves every block's buffer and capacity, never moves a bump
\* cursor back, and changes at most one existing gap slot: none for insert,
\* and for insertBefore only the slot of the targeted cell, from null.
C4_InsertionFrame ==
  [][(last'.op \in {"insert", "insertBefore"} /\ last' # last) =>
       /\ \A a \in DOMAIN nodes : a \in DOMAIN nodes' /\ nodes'[a] = nodes[a]
       /\ \A b \in DOMAIN blocks :
            /\ blocks'[b].buf = blocks[b].buf
            /\ blocks'[b].size = blocks[b].size
            /\ blocks'[b].freed = blocks[b].freed
            /\ blocks'[b].pos >= blocks[b].pos
       /\ \A a \in DOMAIN slots :
            /\ a \in DOMAIN slots'
            /\ slots'[a] # slots[a] =>
                 /\ last'.op = "insertBefore"
                 /\ a = last'.addr - gapSize
                 /\ slots[a] = NULL]_vars

C4_Witness ==
  /\ last.op = "insertBefore"
  /\ last.arena = Len(blocks)
  /\ Cardinality(DOMAIN nodes) >= 2
  /\ \E b \in DOMAIN blocks : blocks[b].next # NULL

\* C5: flattening an arena that holds no record reads no cell of the source
\* and returns an empty arena with its bump cursor at the initial position.
C5_FlattenEmpty ==
  (last.op \in {"flatten", "abort"} /\ nflat <= 1 /\ last.records = 0) =>
     /\ ~last.uninit
     /\ last.op = "flatten"
     /\ TraversalNow = <<>>
     /\ blocks[root].pos = blocks[root].buf + gapSize

\* C6: flatten is idempotent on content.  For an arena built from NodeList()
\* that holds at least one record, flattening the result of its flatten
\* yields the same sequence of values as the first result.
C6_FlattenIdempotent ==
  (last.op = "flatten" /\ nflat >= 2 /\ last.records > 0
     /\ blocks[1].size = defaultSize)
    => ValuesNow = last.before

\* C7: the arena flatten returns is a single block without successor, the
\* records of the source's logical sequence are stored in it contiguously in
\* that order, the bump cursor is the start plus one gap slot plus the sum of
\* (record size + gap slot size) over these records, and every gap slot up
\* to the one at the cursor is null.
C7_FlatDense ==
  last.op = "flatten" =>
    LET b == blocks[root]
        n == Len(last.before)
    IN /\ b.next = NULL /\ b.nextFree = NULL /\ b.numGaps = 0
       /\ TraversalNow = [k \in 1 .. n |-> DenseAddr(b.buf, last.before, k)]
       /\ b.pos = DenseAddr(b.buf, last.before, n + 1)
       /\ \A k \in 1 .. n + 1 :
            /\ (DenseAddr(b.buf, last.before, k) - gapSize) \in DOMAIN slots
            /\ slots[DenseAddr(b.buf, last.before, k) - gapSize] = NULL

\* the blocks that hold a pointer to block b: as next, or in a gap slot
Parents(b) ==
  {p \in DOMAIN blocks : blocks[p].freed = 0 /\ blocks[p].next = b}
  \cup {a \in DOMAIN slots : slots[a] = b}

\* C8: ownership is a tree and teardown is exact.  Every live block other
\* than the root is pointed to by exactly one next pointer or gap slot, and
\* once the root is destroyed (by delete or by flatten) every block of its
\* tree has been released exactly once.
C8_TeardownExact ==
  /\ \A b \in DOMAIN blocks :
       (blocks[b].freed = 0 /\ b # root) => Cardinality(Parents(b)) = 1
  /\ last.op \in {"delete", "flatten"} =>
       \A b \in DOMAIN blocks : b # root => blocks[b].freed = 1

\* C9: allocate returns fresh storage.  On every insert, the bytes returned
\* and the gap slot after them lie inside the buffer of one live block,
\* overlap no record stored before and no gap slot written before, and the
\* gap slot after them is null.
C9_FreshStorage ==
  [][(last'.op = "insert" /\ last' # last) =>
       LET a == last'.addr
           n == last'.size
       IN /\ \E b \in DOMAIN blocks' :
               /\ blocks'[b].freed = 0
               /\ blocks'[b].buf + gapSize <= a
               /\ a + n + gapSize <= blocks'[b].buf + blocks'[b].size
          /\ \A x \in DOMAIN nodes :
               Disjoint(a, n + gapSize, x, realSize(nodes[x]))
          /\ \A x \in DOMAIN slots : Disjoint(a, n + gapSize, x, gapSize)
          /\ (a - gapSize) \in DOMAIN slots'
          /\ (a + n) \in DOMAIN slots' /\ slots'[a + n] = NULL]_vars

C9_Witness ==
  /\ last.op = "insert"
  /\ last.steps >= 1
  /\ Cardinality(DOMAIN nodes) >= 3
  /\ gapOf # <<>>

\* C10: allocate never fails.  For every request size and every chain state
\* the allocator reaches, a call of prepareInsert returns storage after
\* finitely many delegation steps (fewer than MaxDelegations here).
C10_AllocateNeverFails ==
  last.op \in {"allocate", "diverged"} =>
     /\ last.op = "allocate"
     /\ last.addr # NULL
     /\ last.steps < MaxDelegations

\* the logical sequence of arena b by its recursive definition: for each cell
\* of a block in storage order the sequence of its gap, then the cell's
\* record; after the block's cells, the sequence of its successor
RECURSIVE LogicalCells(_, _, _, _, _, _)
RECURSIVE Logical(_, _, _, _, _)
LogicalCells(bl, nd, sl, b, finger, fuel) ==
  IF fuel = 0 \/ finger >= bl[b].pos \/ finger \notin DOMAIN nd THEN <<>>
  ELSE (IF Gap(sl, finger) # NULL
        THEN Logical(bl, nd, sl, Gap(sl, finger), fuel - 1) ELSE <<>>)
       \o <<finger>>
       \o LogicalCells(bl, nd, sl, b,
                       finger + realSize(nd[finger]) + gapSize, fuel - 1)

Logical(bl, nd, sl, b, fuel) ==
  IF fuel = 0 THEN <<>>
  ELSE LogicalCells(bl, nd, sl, b, bl[b].buf + gapSize, fuel)
       \o (IF bl[b].next # NULL
           THEN Logical(bl, nd, sl, bl[b].next, fuel - 1) ELSE <<>>)

\* C11: the traversal cursor implements the recursive definition of the
\* logical sequence.  For every arena built by insert and insertBefore,
\* stepping a cursor from begin() to end() yields exactly the records of the
\* recursive definition, each once; a gap without records contributes
\* nothing.
C11_TraversalIsLogical ==
  (Live /\ nflat = 0)
    => TraversalNow = Logical(blocks, nodes, slots, root, MaxSteps)

Range(s) == {s[k] : k \in DOMAIN s}

\* C12: gap enumeration is path-independent.  In every block of an arena
\* built by insert and insertBefore, the gaps registered are those of the
\* block's own cells: the cache, while it has not overflowed, enumerates
\* exactly the non-null gap slots a scan of the block's cells finds, and the
\* number of gaps registered in a block is the number of its cells that have
\* a gap.
C12_GapEnumeration ==
  (Live /\ nflat = 0) =>
    \A b \in DOMAIN blocks :
      /\ ~Overflow(blocks[b]) =>
           Range(Foreach(blocks, nodes, slots, b))
             = Range(ScanGaps(blocks, nodes, slots, b))
      /\ blocks[b].numGaps = Len(ScanGaps(blocks, nodes, slots, b))

\* C13: relocation order during flatten.  In the first flatten of an arena
\* built by insert and insertBefore from NodeList() that holds at least one
\* record, whenever adjustOffset runs on the copy of an Add, the first word
\* at the old address of each operand already holds that operand's
\* forwarding value.
C13_RelocationOrder ==
  (last.op = "flatten" /\ nflat = 1 /\ last.records > 0
     /\ blocks[1].size = defaultSize)
    => last.early = <<>>

\* no request has found a block without room: no block is marked full
NoOverflow == \A b \in DOMAIN blocks : ~blocks[b].full

\* C14: insertBefore places records immediately before the targeted record.
\* While no block has overflowed, after every operation the traversal of the
\* arena is the sequence the operations imply: the records appended to the
\* sub-arena insertBefore returned for a record come, in append order,
\* directly before that record, and the other records keep their order.  An
\* insertBefore at a cell that already has a gap returns that gap's arena and
\* changes neither the blocks nor the gap slots.
C14_InsertBeforePlacement ==
  /\ []((Live /\ nflat = 0 /\ NoOverflow)
          => TraversalNow = Implied(app, gapOf, root, MaxSteps))
  /\ [][(last'.op = "insertBefore" /\ last' # last
           /\ Gap(slots, last'.addr) # NULL)
          => /\ last'.arena = Gap(slots, last'.addr)
             /\ blocks' = blocks
             /\ slots' = slots]_vars

\* a second insertBefore at a cell whose gap holds two records, in an arena
\* of two records, nothing having overflowed
C14_Witness ==
  /\ Live /\ nflat = 0 /\ NoOverflow
  /\ last.op = "insertBefore"
  /\ Len(app[last.arena]) = 2
  /\ Len(app[root]) = 2

\* C15: advancing a cursor that is at the terminal state is rejected: the
\* call asserts, reads no cell beyond the bump cursor and does not leave the
\* cursor in a state that compares unequal to end().
C15_AdvanceAtEndRejected ==
  last.op = "advanceAtEnd" =>
     /\ cursor.mode = "asserted"
     /\ ~last.uninit
     /\ ~iterNotEnd(cursor.i)

\* C16: insertion interleaves with forward iteration.  After insertBefore at
\* a live cursor's position, whatever is appended to the arena it returned,
\* the records the cursor has yielded since, followed by those it goes on to
\* yield until it reaches end(), are exactly the records it had still to
\* yield when insertBefore was called.
C16_InsertWhileIterating ==
  (cursor.mode = "live" /\ cursor.gap # NULL) =>
     cursor.seen \o Fingers(Visit(blocks, nodes, slots, cursor.i, MaxSteps))
       = cursor.expect

\* the cursor has reached end() after an insertBefore at its position, two
\* records yielded since, one of them reached through a gap, and a record
\* appended to the returned arena
C16_Witness ==
  /\ cursor.mode = "live"
  /\ cursor.gap # NULL
  /\ cursor.added >= 1
  /\ Len(cursor.seen) >= 2
  /\ ~iterNotEnd(cursor.i)
  /\ \E k \in DOMAIN cursor.seen : cursor.seen[k] \notin Range(app[root])

\* the arena insertBefore has set in the gap slot at address a, if any
Targeted(a) == IF (a + gapSize) \in DOMAIN gapOf THEN gapOf[a + gapSize] ELSE NULL

\* C17: cell gap-slot invariant.  In every state of a live arena, the gap
\* slot of every cell and the slot at every block's bump cursor have been
\* written, and a slot holds null unless insertBefore has targeted exactly
\* that cell, in which case it still holds the arena insertBefore stored;
\* in the arena flatten returns every slot is null.
C17_GapSlotInvariant ==
  /\ (Live /\ nflat = 0) =>
       /\ \A a \in DOMAIN slots : slots[a] = Targeted(a)
       /\ \A x \in DOMAIN nodes : (x - gapSize) \in DOMAIN slots
       /\ \A b \in DOMAIN blocks : (blocks[b].pos - gapSize) \in DOMAIN slots
  /\ (Live /\ nflat > 0) =>
       /\ \A a \in DOMAIN slots :
            InBuffer(blocks, root, a) => slots[a] = NULL
       /\ (blocks[root].pos - gapSize) \in DOMAIN slots

\* a record has been appended to a block after two of the cells of the arena
\* were targeted by insertBefore
C17_Witness ==
  /\ Live /\ nflat = 0
  /\ last.op = "insert"
  /\ Cardinality(DOMAIN gapOf) = 2
  /\ Cardinality(DOMAIN nodes) = 4

\* C18: full blocks stay closed.  Once a block's full flag is set, no later
\* insert clears the flag or advances that block's bump cursor.
C18_FullStaysClosed ==
  [][(last'.op = "insert" /\ last' # last) =>
       \A b \in DOMAIN blocks :
          blocks[b].full =>
             /\ blocks'[b].full
             /\ blocks'[b].pos = blocks[b].pos]_vars

\* C19: flatten stays inside its buffer.  After the first flatten of an arena
\* built from NodeList() that holds at least one record, the bump cursor of
\* the new block, and with it every byte flatten wrote, lies within the
\* capacity flatten allocated: start plus totalSize of the source.
C19_FlattenInBuffer ==
  (last.op = "flatten" /\ nflat = 1 /\ last.records > 0
     /\ blocks[1].size = defaultSize)
    => blocks[root].pos <= blocks[root].buf + blocks[root].size

====
